---- MODULE Spec2Model ----
(***************************************************************************)
(* State machine of windows-cap-python/src/lib.rs: the DXGI desktop        *)
(* duplication session (NativeDxgiDuplication) and the CPU-mapped frames   *)
(* it returns (NativeDxgiDuplicationFrame).                                *)
(*                                                                         *)
(* The Direct3D device, the duplication API of the windows_capture crate   *)
(* and the monitor lookup are the environment: each of their calls is a    *)
(* nondeterministic choice among the outcomes the call can have.           *)
(***************************************************************************)
EXTENDS Integers, Sequences, FiniteSets, TLC

(***************************************************************************)
(* Bounds of the model.                                                    *)
(***************************************************************************)
\* Frame objects that can be returned in one run.
MaxFrames == 2
\* Monitor::from_index resolves the indices 1..NumDisplays.
NumDisplays == 2
\* Size of the desktop texture the duplication API hands out.
RawWidth == 120
RawHeight == 80
\* Modulus of u32 arithmetic, scaled down from 2^32 (TLC integers are 32 bit).
U32Mod == 1048576

(***************************************************************************)
(* Constants of the program and of the Direct3D API it calls.              *)
(***************************************************************************)
DXGI_FORMAT_B8G8R8A8_UNORM == 87
DXGI_FORMAT_R8G8B8A8_UNORM == 28
DXGI_FORMAT_R16G16B16A16_FLOAT == 10
\* A format the duplication can report that the program has no case for.
DXGI_FORMAT_R10G10B10A2_UNORM == 24
\* D3D11_REQ_TEXTURE2D_U_OR_V_DIMENSION: CreateTexture2D rejects a Width or
\* Height of 0 or above this.
MaxTexDim == 16384

NoHandle == 0
NoMonitor == 0
NullPtr == 0

\* Two handles exist at most: the one a session holds and one being opened.
HandleIds == 1..2
FrameIds == 1..MaxFrames
Displays == 1..NumDisplays
\* Monitor indices a caller passes: 0 and NumDisplays + 1 do not resolve.
Indices == 0..(NumDisplays + 1)

\* usize of the narrowest Windows target (32 bit): as wide as u32.
UsizeMax == U32Mod - 1

VARIABLES
    pc,             \* position of the one caller: "nosession", "idle", or inside switch_monitor / recreate
    monitor,        \* NativeDxgiDuplication.monitor
    duplication,    \* NativeDxgiDuplication.duplication (a handle id)
    newMon,         \* local `monitor` of switch_monitor
    newDup,         \* local `duplication` of switch_monitor / recreate_duplication
    handles,        \* the duplication handles of the environment: live?, display, invalidated?
    frames,         \* the NativeDxgiDuplicationFrame objects
    last,           \* the last call that returned and what it returned
    overflowChecks, \* build profile: arithmetic overflow panics (TRUE) or wraps (FALSE)
    rawFormat,      \* DXGI_FORMAT of the desktop texture, fixed for a run
    rowPad,         \* padding the device adds to a mapped row, fixed for a run
    hist            \* history of AccessLost reports, for the recovery claims

vars == <<pc, monitor, duplication, newMon, newDup, handles, frames, last,
          overflowChecks, rawFormat, rowPad, hist>>


(***************************************************************************)
(* Values.                                                                 *)
(***************************************************************************)
\* Option<Vec<i32>>: None, or Some(v).
NoArea == [some |-> FALSE, v |-> <<>>]
SomeArea(v) == [some |-> TRUE, v |-> v]

\* The `area` arguments of the crop runs: none, the crop (10, 10, 110, 60),
\* inverted and empty crops, a crop wider than the desktop texture, a
\* negative coordinate, and sequences that are not 4-tuples.
AreaArgs ==
    { NoArea,
      SomeArea(<<10, 10, 110, 60>>),
      SomeArea(<<10, 10, 5, 60>>),
      SomeArea(<<10, 10, 10, 60>>),
      SomeArea(<<10, 60, 110, 10>>),
      SomeArea(<<0, 0, RawWidth + 10, RawHeight>>),
      SomeArea(<<0 - 1, 10, 110, 60>>),
      SomeArea(<<>>),
      SomeArea(<<10, 10>>),
      SomeArea(<<10, 10, 110, 60, 7>>) }

\* The `area` arguments of the session runs.
SessionAreas == { NoArea, SomeArea(<<10, 10, 110, 60>>) }

\* What the device answers to CreateTexture2D and Map when nothing is wrong
\* with the request: both succeed, the first fails, the second fails.
DeviceAnswers ==
    { [createOk |-> TRUE, mapOk |-> TRUE],
      [createOk |-> FALSE, mapOk |-> TRUE],
      [createOk |-> TRUE, mapOk |-> FALSE] }

FreeHandle == [live |-> FALSE, mon |-> NoMonitor, lost |-> FALSE]
OpenHandle(m) == [live |-> TRUE, mon |-> m, lost |-> FALSE]

NoFrame ==
    [state |-> "unused", ptr |-> NullPtr, len |-> 0, width |-> 0, height |-> 0,
     bytes_per_pixel |-> 0, row_pitch |-> 0, color_format |-> "", mapped |-> FALSE,
     stagingW |-> 0, stagingH |-> 0, stagingLive |-> FALSE, unmaps |-> 0]

\* What a call left behind: the operation, its result, and for
\* acquire_next_frame the argument, the staging texture it asked for and
\* the frame object it returned.
Returned(op, result) ==
    [op |-> op, result |-> result, area |-> NoArea, hw |-> "",
     askedW |-> 0, askedH |-> 0, staging |-> FALSE, mapCalls |-> 0, frame |-> 0,
     ptr |-> NullPtr, len |-> 0]

LiveHandles == {h \in HandleIds : handles[h].live}
FreshHandle == CHOOSE h \in HandleIds : ~handles[h].live /\ \A g \in HandleIds : g < h => handles[g].live
HasFreshFrame == \E f \in FrameIds : frames[f].state = "unused"
FreshFrame ==
    IF HasFreshFrame
    THEN CHOOSE f \in FrameIds : frames[f].state = "unused" /\ \A g \in FrameIds : g < f => frames[g].state # "unused"
    ELSE 0

(***************************************************************************)
(* The monitor lookup and the duplication API (windows_capture crate).     *)
(***************************************************************************)
\* Monitor::from_index(index): the display of that index, or an error.
Monitor_from_index(index) ==
    IF index \in Displays THEN [ok |-> TRUE, monitor |-> index]
    ELSE [ok |-> FALSE, monitor |-> NoMonitor]

\* Monitor::primary(): the primary display.
Monitor_primary == [ok |-> TRUE, monitor |-> 1]

\* DxgiDuplicationApi::acquire_next_frame: what handle h can answer. An
\* invalidated handle never yields a frame or a timeout again.
DuplicationOutcomes(h) ==
    IF handles[h].lost THEN {"AccessLost", "Other"}
    ELSE {"Frame", "Timeout", "AccessLost", "Other"}

\* Formats the desktop texture can have.
RawFormats ==
    { DXGI_FORMAT_B8G8R8A8_UNORM, DXGI_FORMAT_R8G8B8A8_UNORM,
      DXGI_FORMAT_R16G16B16A16_FLOAT, DXGI_FORMAT_R10G10B10A2_UNORM }

(***************************************************************************)
(* NativeDxgiDuplication: private helpers.                                 *)
(***************************************************************************)
color_format_to_str(color_format) ==
    CASE color_format = "Bgra8" -> "bgra8"
      [] color_format = "Rgba8" -> "rgba8"
      [] color_format = "Rgba16F" -> "rgba16f"

\* Faulty variant of bytes_per_pixel: every format taken as 4 bytes wide.
bytes_per_pixel_always_four(color_format) == 4

bytes_per_pixel(color_format) ==
    CASE color_format \in {"Bgra8", "Rgba8"} -> 4
      [] color_format = "Rgba16F" -> 8

\* Faulty variant of color_format_from_dxgi: an unknown format is taken as
\* Bgra8.
color_format_from_dxgi_with_default(format) ==
    CASE format = DXGI_FORMAT_R8G8B8A8_UNORM -> [ok |-> TRUE, color_format |-> "Rgba8"]
      [] format = DXGI_FORMAT_R16G16B16A16_FLOAT -> [ok |-> TRUE, color_format |-> "Rgba16F"]
      [] OTHER -> [ok |-> TRUE, color_format |-> "Bgra8"]

color_format_from_dxgi(format) ==
    CASE format = DXGI_FORMAT_B8G8R8A8_UNORM -> [ok |-> TRUE, color_format |-> "Bgra8"]
      [] format = DXGI_FORMAT_R8G8B8A8_UNORM -> [ok |-> TRUE, color_format |-> "Rgba8"]
      [] format = DXGI_FORMAT_R16G16B16A16_FLOAT -> [ok |-> TRUE, color_format |-> "Rgba16F"]
      [] OTHER -> [ok |-> FALSE, color_format |-> ""]


(***************************************************************************)
(* NativeDxgiDuplication::new                                              *)
(***************************************************************************)
\* History of AccessLost: nothing lost, no acquisition made.
NoHistory ==
    [lostSinceRecreate |-> FALSE, lostSinceRebuild |-> FALSE,
     atCallRecreate |-> FALSE, atCallRebuild |-> FALSE]

\* A successful recreate(): both histories start again.
HistAfterRecreate == [hist EXCEPT !.lostSinceRecreate = FALSE, !.lostSinceRebuild = FALSE]
\* A successful switch_monitor(): a new handle, but no recreate() call.
HistAfterSwitch == [hist EXCEPT !.lostSinceRebuild = FALSE]

\* monitor_index is None (useIndex = FALSE) or Some(index); openOk is the
\* outcome of DxgiDuplicationApi::new.
New(useIndex, index, openOk) ==
    /\ pc = "nosession"
    /\ LET m == IF useIndex THEN Monitor_from_index(index) ELSE Monitor_primary IN
       IF ~m.ok THEN
            /\ last' = Returned("new", "err_monitor")
            /\ UNCHANGED <<pc, monitor, duplication, handles>>
       ELSE IF ~openOk THEN
            /\ last' = Returned("new", "err_create_session")
            /\ UNCHANGED <<pc, monitor, duplication, handles>>
       ELSE
            /\ handles' = [handles EXCEPT ![FreshHandle] = OpenHandle(m.monitor)]
            /\ monitor' = m.monitor
            /\ duplication' = FreshHandle
            /\ pc' = "idle"
            /\ last' = Returned("new", "ok")
    /\ UNCHANGED <<newMon, newDup, frames, overflowChecks, rawFormat, rowPad, hist>>

(***************************************************************************)
(* NativeDxgiDuplication::switch_monitor, statement by statement.          *)
(***************************************************************************)
\* Faulty variant of SwitchMonitorOpen: self.monitor is assigned as soon as
\* the monitor resolves, before the duplication is opened.
SwitchMonitorOpenAssignsFirst(monitor_index, openOk) ==
    /\ pc = "idle"
    /\ LET m == Monitor_from_index(monitor_index) IN
       IF ~m.ok THEN
            /\ last' = Returned("switch_monitor", "err_monitor")
            /\ UNCHANGED <<pc, newMon, newDup, handles, monitor, duplication>>
       ELSE IF ~openOk THEN
            /\ last' = Returned("switch_monitor", "err_create_session")
            /\ monitor' = m.monitor
            /\ UNCHANGED <<pc, newMon, newDup, handles, duplication>>
       ELSE
            /\ handles' = [handles EXCEPT ![FreshHandle] = OpenHandle(m.monitor)]
            /\ newMon' = m.monitor
            /\ newDup' = FreshHandle
            /\ pc' = "sw_opened"
            /\ last' = Returned("switch_monitor", "running")
            /\ UNCHANGED <<monitor, duplication>>
    /\ UNCHANGED <<frames, overflowChecks, rawFormat, rowPad, hist>>

\* Lines 198-202: resolve the monitor and open a duplication for it, the
\* session's own handle still in place. Either failure returns the error.
SwitchMonitorOpen(monitor_index, openOk) ==
    /\ pc = "idle"
    /\ LET m == Monitor_from_index(monitor_index) IN
       IF ~m.ok THEN
            /\ last' = Returned("switch_monitor", "err_monitor")
            /\ UNCHANGED <<pc, newMon, newDup, handles, monitor, duplication>>
       ELSE IF ~openOk THEN
            /\ last' = Returned("switch_monitor", "err_create_session")
            /\ UNCHANGED <<pc, newMon, newDup, handles, monitor, duplication>>
       ELSE
            /\ handles' = [handles EXCEPT ![FreshHandle] = OpenHandle(m.monitor)]
            /\ newMon' = m.monitor
            /\ newDup' = FreshHandle
            /\ pc' = "sw_opened"
            /\ last' = Returned("switch_monitor", "running")
            /\ UNCHANGED <<monitor, duplication>>
    /\ UNCHANGED <<frames, overflowChecks, rawFormat, rowPad, hist>>

\* Faulty variant of SwitchMonitorSetMonitor: self.monitor is not assigned.
SwitchMonitorKeepsMonitor ==
    /\ pc = "sw_opened"
    /\ pc' = "sw_monitor_set"
    /\ UNCHANGED <<monitor, duplication, newMon, newDup, handles, frames, last,
                   overflowChecks, rawFormat, rowPad, hist>>

\* Line 204: self.monitor = monitor.
SwitchMonitorSetMonitor ==
    /\ pc = "sw_opened"
    /\ monitor' = newMon
    /\ pc' = "sw_monitor_set"
    /\ UNCHANGED <<duplication, newMon, newDup, handles, frames, last,
                   overflowChecks, rawFormat, rowPad, hist>>

\* Line 205, first half: the assignment drops the value the field held.
SwitchMonitorDropOld ==
    /\ pc = "sw_monitor_set"
    /\ handles' = [handles EXCEPT ![duplication] = FreeHandle]
    /\ duplication' = NoHandle
    /\ pc' = "sw_old_dropped"
    /\ UNCHANGED <<monitor, newMon, newDup, frames, last,
                   overflowChecks, rawFormat, rowPad, hist>>

\* Line 205, second half, and line 207: the new handle is moved into the
\* field and the call returns Ok(()).
SwitchMonitorInstall ==
    /\ pc = "sw_old_dropped"
    /\ duplication' = newDup
    /\ newDup' = NoHandle
    /\ newMon' = NoMonitor
    /\ pc' = "idle"
    /\ last' = Returned("switch_monitor", "ok")
    /\ hist' = HistAfterSwitch
    /\ UNCHANGED <<monitor, handles, frames, overflowChecks, rawFormat, rowPad>>

(***************************************************************************)
(* NativeDxgiDuplication::recreate (recreate_duplication), by statement.   *)
(***************************************************************************)
\* Faulty variant of RecreateOpen: the duplication is opened for the primary
\* display, whatever self.monitor is.
RecreateOpenPrimary(openOk) ==
    /\ pc = "idle"
    /\ IF ~openOk THEN
            /\ last' = Returned("recreate", "err_recreate")
            /\ UNCHANGED <<pc, newDup, handles>>
       ELSE
            /\ handles' = [handles EXCEPT ![FreshHandle] = OpenHandle(Monitor_primary.monitor)]
            /\ newDup' = FreshHandle
            /\ pc' = "rc_opened"
            /\ last' = Returned("recreate", "running")
    /\ UNCHANGED <<monitor, duplication, newMon, frames, overflowChecks, rawFormat, rowPad, hist>>

\* Line 47: open a duplication for self.monitor; an error is returned as is.
RecreateOpen(openOk) ==
    /\ pc = "idle"
    /\ IF ~openOk THEN
            /\ last' = Returned("recreate", "err_recreate")
            /\ UNCHANGED <<pc, newDup, handles>>
       ELSE
            /\ handles' = [handles EXCEPT ![FreshHandle] = OpenHandle(monitor)]
            /\ newDup' = FreshHandle
            /\ pc' = "rc_opened"
            /\ last' = Returned("recreate", "running")
    /\ UNCHANGED <<monitor, duplication, newMon, frames, overflowChecks, rawFormat, rowPad, hist>>

\* Faulty variant of RecreateDropOld: the old handle is taken out of the
\* field but never released.
RecreateKeepsOld ==
    /\ pc = "rc_opened"
    /\ duplication' = NoHandle
    /\ pc' = "rc_old_dropped"
    /\ UNCHANGED <<monitor, newMon, newDup, handles, frames, last,
                   overflowChecks, rawFormat, rowPad, hist>>

\* Line 48, first half: the assignment drops the value the field held.
RecreateDropOld ==
    /\ pc = "rc_opened"
    /\ handles' = [handles EXCEPT ![duplication] = FreeHandle]
    /\ duplication' = NoHandle
    /\ pc' = "rc_old_dropped"
    /\ UNCHANGED <<monitor, newMon, newDup, frames, last,
                   overflowChecks, rawFormat, rowPad, hist>>

\* Line 48, second half, and lines 49, 213: the new handle is moved into
\* the field and the call returns Ok(()).
RecreateInstall ==
    /\ pc = "rc_old_dropped"
    /\ duplication' = newDup
    /\ newDup' = NoHandle
    /\ pc' = "idle"
    /\ last' = Returned("recreate", "ok")
    /\ hist' = HistAfterRecreate
    /\ UNCHANGED <<monitor, newMon, handles, frames, overflowChecks, rawFormat, rowPad>>


(***************************************************************************)
(* NativeDxgiDuplication::acquire_next_frame                               *)
(***************************************************************************)
\* `x as u32` of an i32 that is not negative.
as_u32(x) == x % U32Mod

\* a - b on u32: an overflow panics where the build checks arithmetic and
\* wraps where it does not.
sub_u32(a, b) ==
    IF a >= b THEN [panic |-> FALSE, val |-> a - b]
    ELSE IF overflowChecks THEN [panic |-> TRUE, val |-> 0]
    ELSE [panic |-> FALSE, val |-> a - b + U32Mod]

\* usize::try_from(x) of a u32.
usize_try_from(x) == [ok |-> x <= UsizeMax, val |-> x]

\* Faulty variant of checked_mul: the product is kept in 16 bits.
checked_mul_u16(a, b) == [ok |-> a * b <= 65535, val |-> a * b]

\* a.checked_mul(b) on usize.
checked_mul(a, b) == [ok |-> a * b <= UsizeMax, val |-> a * b]

\* xywh.iter().all(|&x| x >= 0)
all_non_negative(xywh) == \A k \in 1..Len(xywh) : xywh[k] >= 0

\* Faulty variant of src_box: each element that is not negative is applied
\* on its own, the others are skipped.
src_box_per_element(area) ==
    IF area.some /\ Len(area.v) >= 4 THEN
        [panic |-> FALSE,
         left |-> IF area.v[1] >= 0 THEN as_u32(area.v[1]) ELSE 0,
         top |-> IF area.v[2] >= 0 THEN as_u32(area.v[2]) ELSE 0,
         right |-> IF area.v[3] >= 0 THEN as_u32(area.v[3]) ELSE RawWidth,
         bottom |-> IF area.v[4] >= 0 THEN as_u32(area.v[4]) ELSE RawHeight]
    ELSE
        [panic |-> area.some /\ all_non_negative(area.v),
         left |-> 0, top |-> 0, right |-> RawWidth, bottom |-> RawHeight]

\* Lines 106-122: the source box, the full texture unless an area with no
\* negative element is given; indexing a vector shorter than 4 panics.
src_box(area) ==
    IF area.some /\ all_non_negative(area.v) THEN
        IF Len(area.v) < 4 THEN
            [panic |-> TRUE, left |-> 0, top |-> 0, right |-> 0, bottom |-> 0]
        ELSE
            [panic |-> FALSE,
             left |-> as_u32(area.v[1]), top |-> as_u32(area.v[2]),
             right |-> as_u32(area.v[3]), bottom |-> as_u32(area.v[4])]
    ELSE
        [panic |-> FALSE, left |-> 0, top |-> 0, right |-> RawWidth, bottom |-> RawHeight]

\* Faulty variant of box_width: the third element read as a width.
box_width_is_third(box) == [panic |-> FALSE, val |-> box.right]

\* Lines 124-125.
box_width(box) == sub_u32(box.right, box.left)
box_height(box) == sub_u32(box.bottom, box.top)

\* ID3D11Device::CreateTexture2D refuses a description it cannot satisfy.
TextureDescValid(w, h) == w \in 1..MaxTexDim /\ h \in 1..MaxTexDim

\* D3D11_MAPPED_SUBRESOURCE.RowPitch of a mapped staging texture.
MappedRowPitch(w, bpp) == w * bpp + rowPad

\* D3D11_MAPPED_SUBRESOURCE.pData of the mapping made for frame object f.
MappedData(f) == f

\* Faulty variant of NewFrame: the two usize arguments bytes_per_pixel and
\* row_pitch change places.
NewFrameSwapped(ptr, len, width, height, bpp, row_pitch, color_format) ==
    [state |-> "live", ptr |-> ptr, len |-> len, width |-> width, height |-> height,
     bytes_per_pixel |-> row_pitch, row_pitch |-> bpp, color_format |-> color_format,
     mapped |-> TRUE, stagingW |-> width, stagingH |-> height, stagingLive |-> TRUE,
     unmaps |-> 0]

\* NativeDxgiDuplicationFrame::new
NewFrame(ptr, len, width, height, bpp, row_pitch, color_format) ==
    [state |-> "live", ptr |-> ptr, len |-> len, width |-> width, height |-> height,
     bytes_per_pixel |-> bpp, row_pitch |-> row_pitch, color_format |-> color_format,
     mapped |-> TRUE, stagingW |-> width, stagingH |-> height, stagingLive |-> TRUE,
     unmaps |-> 0]

\* Faulty variant of no_frame_result: AccessLost answered like a timeout.
no_frame_result_lost_is_none(hw) ==
    CASE hw \in {"Timeout", "AccessLost"} -> "none"
      [] OTHER -> "err_acquire"

\* Faulty variant of no_frame_result: a timeout answered as an error.
no_frame_result_timeout_is_error(hw) ==
    CASE hw = "AccessLost" -> "err_access_lost"
      [] OTHER -> "err_acquire"

\* What acquire_next_frame answers when the duplication gives no frame
\* (lines 188-192).
no_frame_result(hw) ==
    CASE hw = "Timeout" -> "none"
      [] hw = "AccessLost" -> "err_access_lost"
      [] OTHER -> "err_acquire"

\* A call's outcome: the result, the staging texture asked for and made,
\* the Map calls that succeeded and the frame object built.
Outcome(result, askedW, askedH, staging, mapCalls, frame) ==
    [result |-> result, askedW |-> askedW, askedH |-> askedH, staging |-> staging,
     mapCalls |-> mapCalls, frame |-> frame]

\* Lines 102-186, the Ok(frame) arm. createOk and mapOk are what the device
\* answers to CreateTexture2D and Map when nothing is wrong with the request.
frame_ready(area, createOk, mapOk) ==
    LET cf == color_format_from_dxgi(rawFormat)
        box == src_box(area)
        w == box_width(box)
        h == box_height(box)
    IN  IF ~cf.ok THEN Outcome("err_format", 0, 0, FALSE, 0, NoFrame)
        ELSE IF box.panic \/ w.panic \/ h.panic THEN Outcome("panic", 0, 0, FALSE, 0, NoFrame)
        ELSE IF ~(createOk /\ TextureDescValid(w.val, h.val))
            THEN Outcome("err_create_staging", w.val, h.val, FALSE, 0, NoFrame)
        ELSE IF ~mapOk THEN Outcome("err_map", w.val, h.val, TRUE, 0, NoFrame)
        ELSE
            LET bpp == bytes_per_pixel(cf.color_format)
                row_pitch == usize_try_from(MappedRowPitch(w.val, bpp))
                height_usize == usize_try_from(h.val)
                len == checked_mul(row_pitch.val, height_usize.val)
            IN  IF ~row_pitch.ok THEN Outcome("err_row_pitch", w.val, h.val, TRUE, 1, NoFrame)
                ELSE IF ~height_usize.ok THEN Outcome("err_height", w.val, h.val, TRUE, 1, NoFrame)
                ELSE IF ~len.ok THEN Outcome("err_overflow", w.val, h.val, TRUE, 1, NoFrame)
                ELSE Outcome("frame", w.val, h.val, TRUE, 1,
                             NewFrame(MappedData(FreshFrame), len.val, w.val, h.val, bpp,
                                      row_pitch.val, color_format_to_str(cf.color_format)))

\* History of AccessLost after an acquisition that met outcome hw.
HistAfterAcquire(hw) ==
    [lostSinceRecreate |-> hist.lostSinceRecreate \/ hw = "AccessLost",
     lostSinceRebuild |-> hist.lostSinceRebuild \/ hw = "AccessLost",
     atCallRecreate |-> hist.lostSinceRecreate,
     atCallRebuild |-> hist.lostSinceRebuild]

\* The call when DxgiDuplicationApi::acquire_next_frame returns Err(hw):
\* lines 101, 188-192. `area` is not read on these arms.
AcquireNextFrameErr(hw) ==
    /\ pc = "idle"
    /\ hw \in DuplicationOutcomes(duplication) \ {"Frame"}
    /\ last' = [Returned("acquire_next_frame", no_frame_result(hw)) EXCEPT !.hw = hw]
    /\ handles' = IF hw = "AccessLost"
                  THEN [handles EXCEPT ![duplication].lost = TRUE]
                  ELSE handles
    /\ hist' = HistAfterAcquire(hw)
    /\ UNCHANGED <<pc, monitor, duplication, newMon, newDup, frames,
                   overflowChecks, rawFormat, rowPad>>

\* The call when DxgiDuplicationApi::acquire_next_frame returns Ok(frame):
\* lines 101-187.
AcquireNextFrameOk(area, dev) ==
    /\ pc = "idle"
    /\ "Frame" \in DuplicationOutcomes(duplication)
    /\ LET out == frame_ready(area, dev.createOk, dev.mapOk) IN
           /\ out.result = "frame" => HasFreshFrame
           /\ frames' = IF out.result = "frame"
                        THEN [frames EXCEPT ![FreshFrame] = out.frame]
                        ELSE frames
           /\ last' = [op |-> "acquire_next_frame", result |-> out.result, area |-> area,
                       hw |-> "Frame", askedW |-> out.askedW, askedH |-> out.askedH,
                       staging |-> out.staging, mapCalls |-> out.mapCalls,
                       frame |-> IF out.result = "frame" THEN FreshFrame ELSE 0,
                       ptr |-> NullPtr, len |-> 0]
    /\ hist' = HistAfterAcquire("Frame")
    /\ UNCHANGED <<pc, monitor, duplication, newMon, newDup, handles,
                   overflowChecks, rawFormat, rowPad>>

(***************************************************************************)
(* NativeDxgiDuplicationFrame                                              *)
(***************************************************************************)
width(fr) == fr.width
height(fr) == fr.height
frame_bytes_per_pixel(fr) == fr.bytes_per_pixel
color_format(fr) == fr.color_format
bytes_per_row(fr) == fr.row_pitch
buffer_ptr(fr) == fr.ptr
buffer_len(fr) == fr.len

\* Faulty variant of drop: the descriptor is voided but Unmap is not called.
drop_without_unmap(fr) ==
    IF fr.mapped
    THEN [fr EXCEPT !.mapped = FALSE, !.ptr = NullPtr, !.len = 0]
    ELSE fr

\* Faulty variant of drop: the length is left as it was.
drop_keeps_len(fr) ==
    IF fr.mapped
    THEN [fr EXCEPT !.unmaps = @ + 1, !.mapped = FALSE, !.ptr = NullPtr]
    ELSE fr

\* Faulty variant of drop: the descriptor is voided but the texture is left
\* mapped.
drop_without_release(fr) ==
    IF fr.mapped
    THEN [fr EXCEPT !.ptr = NullPtr, !.len = 0]
    ELSE fr

\* Drop::drop: unmap once, then void the descriptor.
drop(fr) ==
    IF fr.mapped
    THEN [fr EXCEPT !.unmaps = @ + 1, !.mapped = FALSE, !.ptr = NullPtr, !.len = 0]
    ELSE fr

\* What is left of a frame object once its storage is reclaimed: the state
\* of its mapping as drop left it; the staging texture is released with it.
Reclaimed(fr) ==
    [NoFrame EXCEPT !.state = "dropped", !.mapped = fr.mapped, !.ptr = fr.ptr,
                    !.len = fr.len, !.unmaps = fr.unmaps]

\* The caller lets go of frame object f: drop runs, then the fields are
\* dropped and the storage is reclaimed.
FrameDrop(f) ==
    /\ pc = "idle"
    /\ frames[f].state = "live"
    /\ frames' = [frames EXCEPT ![f] = Reclaimed(drop(frames[f]))]
    /\ last' = [Returned("drop", "ok") EXCEPT !.frame = f]
    /\ UNCHANGED <<pc, monitor, duplication, newMon, newDup, handles,
                   overflowChecks, rawFormat, rowPad, hist>>

\* Faulty variant of ToBytes: the frame is unmapped once it is copied.
ToBytesReleases(f) ==
    /\ pc = "idle"
    /\ frames[f].state = "live"
    /\ last' = [Returned("to_bytes", "bytes") EXCEPT !.frame = f,
                    !.ptr = frames[f].ptr, !.len = frames[f].len]
    /\ frames' = [frames EXCEPT ![f] = drop(frames[f])]
    /\ UNCHANGED <<pc, monitor, duplication, newMon, newDup, handles,
                   overflowChecks, rawFormat, rowPad, hist>>

\* to_bytes: a copy of the len bytes at ptr.
ToBytes(f) ==
    /\ pc = "idle"
    /\ frames[f].state = "live"
    /\ last' = [Returned("to_bytes", "bytes") EXCEPT !.frame = f,
                    !.ptr = frames[f].ptr, !.len = frames[f].len]
    /\ UNCHANGED <<pc, monitor, duplication, newMon, newDup, handles, frames,
                   overflowChecks, rawFormat, rowPad, hist>>

\* buffer_view: a memoryview over the len bytes at ptr; viewOk is whether
\* PyMemoryView_FromMemory returns an object.
BufferView(f, viewOk) ==
    /\ pc = "idle"
    /\ frames[f].state = "live"
    /\ last' = IF 2 * frames[f].len > UsizeMax
               THEN [Returned("buffer_view", "err_too_large") EXCEPT !.frame = f]
               ELSE IF ~viewOk
               THEN [Returned("buffer_view", "err_view") EXCEPT !.frame = f]
               ELSE [Returned("buffer_view", "view") EXCEPT !.frame = f,
                        !.ptr = frames[f].ptr, !.len = frames[f].len]
    /\ UNCHANGED <<pc, monitor, duplication, newMon, newDup, handles, frames,
                   overflowChecks, rawFormat, rowPad, hist>>

(***************************************************************************)
(* The specification.                                                      *)
(***************************************************************************)
Init ==
    /\ pc = "nosession"
    /\ monitor = NoMonitor
    /\ duplication = NoHandle
    /\ newMon = NoMonitor
    /\ newDup = NoHandle
    /\ handles = [h \in HandleIds |-> FreeHandle]
    /\ frames = [f \in FrameIds |-> NoFrame]
    /\ last = Returned("", "")
    /\ overflowChecks \in BOOLEAN
    /\ rawFormat \in RawFormats
    /\ rowPad \in {0, 16}
    /\ hist = NoHistory

\* Every operation, on the areas of the session runs.
Next ==
    \/ \E useIndex \in BOOLEAN, index \in Indices, openOk \in BOOLEAN :
            New(useIndex, index, openOk)
    \/ \E hw \in {"Timeout", "AccessLost", "Other"} : AcquireNextFrameErr(hw)
    \/ \E area \in SessionAreas, dev \in DeviceAnswers : AcquireNextFrameOk(area, dev)
    \/ \E monitor_index \in Indices, openOk \in BOOLEAN :
            SwitchMonitorOpen(monitor_index, openOk)
    \/ SwitchMonitorSetMonitor
    \/ SwitchMonitorDropOld
    \/ SwitchMonitorInstall
    \/ \E openOk \in BOOLEAN : RecreateOpen(openOk)
    \/ RecreateDropOld
    \/ RecreateInstall
    \/ \E f \in FrameIds : FrameDrop(f)
    \/ \E f \in FrameIds : ToBytes(f)
    \/ \E f \in FrameIds, viewOk \in BOOLEAN : BufferView(f, viewOk)

Spec == Init /\ [][Next]_vars

\* Frame acquisition on every area, on a session that is opened once.
NextCrop ==
    \/ \E useIndex \in BOOLEAN, index \in Indices, openOk \in BOOLEAN :
            New(useIndex, index, openOk)
    \/ \E hw \in {"Timeout", "AccessLost", "Other"} : AcquireNextFrameErr(hw)
    \/ \E area \in AreaArgs, dev \in DeviceAnswers : AcquireNextFrameOk(area, dev)
    \/ \E f \in FrameIds : FrameDrop(f)

SpecCrop == Init /\ [][NextCrop]_vars


(***************************************************************************)
(* Properties.                                                             *)
(***************************************************************************)
Failures ==
    { "err_access_lost", "err_acquire", "err_format", "err_create_staging", "err_map",
      "err_row_pitch", "err_height", "err_overflow", "panic" }

\* TransferError: the staging texture could not be created or mapped.
TransferErrors == { "err_create_staging", "err_map" }

Acquired == last.op = "acquire_next_frame"

\* C1 as stated: an acquire_next_frame call made after AccessLost was
\* reported, with no successful recreate() since, returns neither a frame
\* nor None.
C1_FailsUntilRecreate ==
    (Acquired /\ hist.atCallRecreate) => last.result \notin {"frame", "none"}

\* C1, amended: an acquire_next_frame call made after AccessLost was
\* reported, with no successful recreate() and no successful
\* switch_monitor() since, fails: it returns neither a frame nor None; and
\* once recreate() has returned Ok(()), the session's handle can give a frame
\* or a timeout again.
C1_FailsUntilRebuilt ==
    /\ (Acquired /\ hist.atCallRebuild) => last.result \in Failures
    /\ (last.op = "recreate" /\ last.result = "ok") =>
            (/\ {"Frame", "Timeout"} \subseteq DuplicationOutcomes(duplication)
             /\ ~hist.lostSinceRecreate /\ ~hist.lostSinceRebuild)

\* An acquisition made on an invalidated session has failed.
C1_FailedAfterLoss ==
    Acquired /\ hist.atCallRebuild /\ last.result = "err_access_lost"

\* C2: the mapping of every frame object is unmapped at most once, not at
\* all while the object is alive, and exactly once by the time its storage
\* is reclaimed.
C2_UnmappedExactlyOnce ==
    \A f \in FrameIds :
        /\ frames[f].unmaps <= 1
        /\ frames[f].state = "live" => (frames[f].mapped /\ frames[f].unmaps = 0)
        /\ frames[f].state = "dropped" => (~frames[f].mapped /\ frames[f].unmaps = 1)

\* A frame object was returned, let go of, and its mapping unmapped.
C2_DroppedAndUnmapped ==
    \E f \in FrameIds : frames[f].state = "dropped" /\ frames[f].unmaps = 1

\* C3: a frame object whose mapped flag is false has buffer_len() = 0 and a
\* null buffer_ptr().
C3_ReleasedIsVoid ==
    \A f \in FrameIds :
        (frames[f].state # "unused" /\ ~frames[f].mapped) =>
            (buffer_len(frames[f]) = 0 /\ buffer_ptr(frames[f]) = NullPtr)

\* A frame object was returned and drop has run on it: its mapped flag is false.
C3_ReleasedFrame ==
    \E f \in FrameIds :
        /\ frames[f].state = "dropped" /\ ~frames[f].mapped
        /\ last.op = "drop" /\ last.frame = f

\* C5 as stated: never more than one live duplication handle.
C5_OneLiveHandle == Cardinality(LiveHandles) <= 1

\* C5, amended: the session holds at most one handle; between calls that
\* handle is the only live one; inside switch_monitor and recreate the new
\* handle is opened while the old one is live, and the old one is released
\* before the new one is put in the field.
C5_OneInstalledHandle ==
    /\ duplication # NoHandle => handles[duplication].live
    /\ pc = "idle" => LiveHandles = {duplication}
    /\ pc \in {"sw_opened", "sw_monitor_set", "rc_opened"} =>
            (newDup # duplication /\ LiveHandles = {duplication, newDup})
    /\ pc \in {"sw_old_dropped", "rc_old_dropped"} =>
            (duplication = NoHandle /\ LiveHandles = {newDup})

\* recreate() has returned Ok(()) and left one live handle, the session's.
C5_Rebuilt ==
    /\ pc = "idle" /\ last.op = "recreate" /\ last.result = "ok"
    /\ LiveHandles = {duplication}

\* C6: a switch_monitor call that returns an error changes neither the
\* session's monitor nor its duplication handle nor any handle.
C6_FailedSwitchChangesNothing ==
    [][(last'.op = "switch_monitor" /\ last'.result \in {"err_monitor", "err_create_session"})
            => (monitor' = monitor /\ duplication' = duplication /\ handles' = handles
                /\ pc' = pc)]_vars

\* switch_monitor has failed to open a duplication on a session that has
\* a monitor and a handle.
C6_SwitchFailed ==
    /\ last.op = "switch_monitor" /\ last.result = "err_create_session"
    /\ pc = "idle" /\ monitor \in Displays /\ handles[duplication].live

\* C7: when the duplication reports a timeout, acquire_next_frame returns
\* None, builds no frame object, asks for no staging texture and maps
\* nothing, and the session's monitor, handle and the handle's validity
\* are as before.
C7_TimeoutIsNone ==
    [][(last'.op = "acquire_next_frame" /\ last'.hw = "Timeout")
            => (/\ last'.result = "none"
                /\ last'.frame = 0 /\ ~last'.staging /\ last'.mapCalls = 0
                /\ last'.askedW = 0 /\ last'.askedH = 0
                /\ frames' = frames
                /\ monitor' = monitor /\ duplication' = duplication
                /\ handles' = handles /\ ~handles'[duplication'].lost)]_vars

\* An acquisition has timed out.
C7_TimedOut == Acquired /\ last.hw = "Timeout" /\ last.result = "none"

\* Four coordinates, none negative.
IsRect(area) == area.some /\ Len(area.v) = 4 /\ all_non_negative(area.v)
SupportedFormat == color_format_from_dxgi(rawFormat).ok

\* C8: a crop of four non-negative coordinates with right <= left or
\* bottom <= top, applied to a frame of a supported format, ends in a
\* TransferError and no staging texture is made.
C8_EmptyCropIsTransferError ==
    (/\ Acquired /\ last.hw = "Frame" /\ SupportedFormat
     /\ IsRect(last.area)
     /\ (last.area.v[3] <= last.area.v[1] \/ last.area.v[4] <= last.area.v[2]))
        => (last.result \in TransferErrors /\ ~last.staging)

\* C9: a crop of four non-negative coordinates, right > left and
\* bottom > top, that reaches beyond the desktop texture ends in a
\* TransferError and no frame object.
C9_OutOfRangeCropIsTransferError ==
    (/\ Acquired /\ last.hw = "Frame" /\ SupportedFormat
     /\ IsRect(last.area)
     /\ last.area.v[3] > last.area.v[1] /\ last.area.v[4] > last.area.v[2]
     /\ (last.area.v[3] > RawWidth \/ last.area.v[4] > RawHeight))
        => (last.result \in TransferErrors /\ last.frame = 0)

\* C10: a frame object returned for a crop of four non-negative coordinates
\* with right > left and bottom > top has width right - left and height
\* bottom - top, and so has the staging texture asked for and held;
\* (10, 10, 110, 60) gives 100 by 50.
C10_CropSize ==
    (/\ Acquired /\ last.result = "frame"
     /\ IsRect(last.area)
     /\ last.area.v[3] > last.area.v[1] /\ last.area.v[4] > last.area.v[2])
        => LET fr == frames[last.frame]
               w == last.area.v[3] - last.area.v[1]
               h == last.area.v[4] - last.area.v[2]
           IN  /\ width(fr) = w /\ height(fr) = h
               /\ last.askedW = w /\ last.askedH = h /\ last.staging
               /\ fr.stagingW = w /\ fr.stagingH = h /\ fr.stagingLive
               /\ (last.area.v = <<10, 10, 110, 60>> => (width(fr) = 100 /\ height(fr) = 50))

\* The crop (10, 10, 110, 60) has given a frame object of 100 by 50.
C10_Cropped ==
    /\ Acquired /\ last.result = "frame" /\ last.area = SomeArea(<<10, 10, 110, 60>>)
    /\ width(frames[last.frame]) = 100 /\ height(frames[last.frame]) = 50


\* C11: an area with a negative element is not applied, none of it: the
\* call does not panic, the staging texture asked for has the size of the
\* whole desktop texture, and a frame object returned has that width and
\* height.
C11_NegativeCropIgnored ==
    (/\ Acquired /\ last.hw = "Frame" /\ SupportedFormat
     /\ last.area.some /\ ~all_non_negative(last.area.v))
        => /\ last.result \in {"frame"} \cup TransferErrors
           /\ last.askedW = RawWidth /\ last.askedH = RawHeight
           /\ last.result = "frame" =>
                (/\ width(frames[last.frame]) = RawWidth
                 /\ height(frames[last.frame]) = RawHeight)

\* An area with a negative element has given a frame object of full size.
C11_FullFrameReturned ==
    /\ Acquired /\ last.result = "frame"
    /\ last.area = SomeArea(<<0 - 1, 10, 110, 60>>)
    /\ width(frames[last.frame]) = RawWidth /\ height(frames[last.frame]) = RawHeight

\* C12: on a desktop texture whose format is none of the three known, an
\* acquisition that got a frame fails with the format error, asks for no
\* staging texture, maps nothing, and no frame object ever exists.
C12_UnknownFormatRejected ==
    rawFormat \notin { DXGI_FORMAT_B8G8R8A8_UNORM, DXGI_FORMAT_R8G8B8A8_UNORM,
                       DXGI_FORMAT_R16G16B16A16_FLOAT } =>
        /\ \A f \in FrameIds : frames[f].state = "unused"
        /\ (Acquired /\ last.hw = "Frame") =>
                (/\ last.result = "err_format"
                 /\ ~last.staging /\ last.askedW = 0 /\ last.askedH = 0
                 /\ last.mapCalls = 0 /\ last.frame = 0)

\* An acquisition has met a format outside the table.
C12_FormatRejected ==
    /\ Acquired /\ last.hw = "Frame" /\ last.result = "err_format"
    /\ rawFormat = DXGI_FORMAT_R10G10B10A2_UNORM

C14_FormatPair ==
    \A f \in FrameIds :
        frames[f].state = "live" =>
            LET pair == <<color_format(frames[f]), frame_bytes_per_pixel(frames[f])>> IN
                /\ pair \in { <<"bgra8", 4>>, <<"rgba8", 4>>, <<"rgba16f", 8>> }
                /\ rawFormat = DXGI_FORMAT_B8G8R8A8_UNORM => pair = <<"bgra8", 4>>
                /\ rawFormat = DXGI_FORMAT_R8G8B8A8_UNORM => pair = <<"rgba8", 4>>
                /\ rawFormat = DXGI_FORMAT_R16G16B16A16_FLOAT => pair = <<"rgba16f", 8>>

\* A frame object of the widest format exists.
C14_Rgba16fFrame ==
    \E f \in FrameIds :
        /\ frames[f].state = "live" /\ rawFormat = DXGI_FORMAT_R16G16B16A16_FLOAT
        /\ color_format(frames[f]) = "rgba16f" /\ frame_bytes_per_pixel(frames[f]) = 8

\* C15: to_bytes changes no frame object, returns the buffer_len() bytes at
\* buffer_ptr(), and a call that follows another on the same frame returns
\* the same bytes.
C15_ToBytesRepeats ==
    [][last'.op = "to_bytes" =>
            (/\ frames' = frames
             /\ frames[last'.frame].mapped
             /\ last'.len = buffer_len(frames'[last'.frame])
             /\ last'.ptr = buffer_ptr(frames'[last'.frame])
             /\ (last.op = "to_bytes" /\ last.frame = last'.frame) =>
                    (last'.len = last.len /\ last'.ptr = last.ptr))]_vars

\* to_bytes has copied a mapped frame.
C15_Copied ==
    /\ last.op = "to_bytes" /\ last.result = "bytes"
    /\ frames[last.frame].mapped /\ last.len = buffer_len(frames[last.frame])
    /\ last.len > 0


MappedFrames == {f \in FrameIds : frames[f].mapped}

\* C17 as stated: at most one frame object of the session is mapped at any
\* time, whatever the calls.
C17_OneMappedFrame == Cardinality(MappedFrames) <= 1

\* C17 as amended: an acquisition maps at most one texture more, that of
\* the frame object it returns; dropping a frame object unmaps it; so a
\* step taken when no frame object is mapped leaves at most one mapped.
C17_OneMappedIfDroppedFirst ==
    [][LET before == {f \in FrameIds : frames[f].mapped}
           after == {f \in FrameIds : frames'[f].mapped}
       IN  /\ after \ before \subseteq
                (IF last'.op = "acquire_next_frame" /\ last'.result = "frame"
                 THEN {last'.frame} ELSE {})
           /\ last'.op = "drop" => after = before \ {last'.frame}
           /\ before = {} => Cardinality(after) <= 1]_vars

\* A frame was dropped, then the next acquired: one frame object is mapped.
C17_NextAfterDrop ==
    /\ Acquired /\ last.result = "frame"
    /\ \E f \in FrameIds : frames[f].state = "dropped" /\ frames[f].unmaps = 1
    /\ MappedFrames = {last.frame}

\* C18: no step of recreate() changes self.monitor; a failed recreate()
\* changes neither the duplication nor any handle; a recreate() that
\* succeeds leaves as the only live handle one opened for self.monitor.
C18_RecreateKeepsMonitor ==
    [][last'.op = "recreate" =>
            (/\ monitor' = monitor
             /\ last'.result = "err_recreate" =>
                    (duplication' = duplication /\ handles' = handles)
             /\ last'.result = "ok" =>
                    (/\ handles'[duplication'] = OpenHandle(monitor)
                     /\ {h \in HandleIds : handles'[h].live} = {duplication'}))]_vars

\* recreate() has succeeded on a session of the second display.
C18_RecreatedOnSecond ==
    /\ pc = "idle" /\ last.op = "recreate" /\ last.result = "ok"
    /\ monitor = 2 /\ handles[duplication] = OpenHandle(2)

\* C19: between calls, the duplication of a session is a live handle that
\* was opened for the session's monitor.
C19_HandleOfMonitor ==
    pc = "idle" => (handles[duplication].live /\ handles[duplication].mon = monitor)

\* switch_monitor has moved a session to the second display.
C19_Switched ==
    /\ pc = "idle" /\ last.op = "switch_monitor" /\ last.result = "ok"
    /\ monitor = 2 /\ handles[duplication].live /\ handles[duplication].mon = 2

\* C20 as stated: an area that is not of four elements never makes the
\* call panic, and is not applied as a crop.
C20_MalformedCropHarmless ==
    (/\ Acquired /\ last.hw = "Frame" /\ SupportedFormat
     /\ last.area.some /\ Len(last.area.v) # 4)
        => /\ last.result # "panic"
           /\ last.result = "frame" =>
                (/\ width(frames[last.frame]) = RawWidth
                 /\ height(frames[last.frame]) = RawHeight)

====
